---- MODULE Spec2Model ----
(***************************************************************************)
(* Model of app.py, the Peer-Group Anomaly Detection dashboard.            *)
(*                                                                         *)
(* The three CSV files are the inputs.  One run of the script loads them   *)
(* (load_data, load_historical_data) and renders the page selected in the  *)
(* sidebar; every later interaction reruns the script on the cached        *)
(* tables, which is one page action of the model.                          *)
(*                                                                         *)
(* A table (CSV file or DataFrame) is a record                             *)
(*     [exists, cols, rows]                                                *)
(* where rows is a sequence of functions from column name to value.        *)
(* pd.DataFrame() is the table with no columns and no rows.  A missing     *)
(* cell is NaN.  Real numbers are integers (scores, z-scores) and exact    *)
(* fractions <<numerator, denominator>> (percentages).                     *)
(***************************************************************************)
EXTENDS Integers, Sequences, FiniteSets, TLC

VARIABLES
    universe,     \* ind_nifty500list.csv
    watchlist,    \* final_project_watchlist_complete.csv
    historical,   \* nifty500_financials.csv
    df,           \* df = load_data()
    hist_df,      \* hist_df = load_historical_data()
    pc,           \* "start" -> "df" -> "ready"
    view          \* what the last script run rendered, or the exception it raised

vars == <<universe, watchlist, historical, df, hist_df, pc, view>>

----------------------------------------------------------------------------
(* Bounds of the model *)

MaxUniverse == 2      \* rows of the universe file
MaxRows == 2          \* rows of the watchlist file (join family)
MaxSectorRows == 2    \* rows of the watchlist file (sector family)
MaxZ == 1             \* z-scores range over -MaxZ..MaxZ (driver family)
MaxHist == 2          \* rows of the historical file
MaxTopRows == 6       \* rows of the watchlist file (top-5 family)

(* Program constant *)
TopN == 5             \* .head(5)

----------------------------------------------------------------------------
(* Values *)

NaN == "<NaN>"
None == "<None>"
Symbols == {"A", "B"}
Labels == {-1, 0, 1}
SectorsSorted == <<"FIN", "IT">>    \* the sector names, in sorted() order
Sectors == {SectorsSorted[i] : i \in 1..Len(SectorsSorted)}

feature_cols == <<"TATA_Z", "DSRI_Z", "AQI_Z", "P_OCF_Z", "PEG_Z", "DuPont_Discrepancy_Z">>

feature_names == [c \in {feature_cols[i] : i \in 1..Len(feature_cols)} |->
    CASE c = "TATA_Z" -> "Accruals (TATA)"
      [] c = "DSRI_Z" -> "Receivables (DSRI)"
      [] c = "AQI_Z" -> "Asset Quality (AQI)"
      [] c = "P_OCF_Z" -> "Price/CashFlow"
      [] c = "PEG_Z" -> "PEG Ratio"
      [] c = "DuPont_Discrepancy_Z" -> "DuPont Discrepancy"]

risk_map == [c \in {feature_cols[i] : i \in 1..Len(feature_cols)} |->
    CASE c = "TATA_Z" -> [high |-> "High Accruals", low |-> "Low Accruals"]
      [] c = "DSRI_Z" -> [high |-> "High Receivables Growth", low |-> "Low Receivables"]
      [] c = "AQI_Z" -> [high |-> "High Asset Quality Index", low |-> "Stable Asset Base"]
      [] c = "P_OCF_Z" -> [high |-> "High Price-to-CashFlow", low |-> "Low Valuation"]
      [] c = "PEG_Z" -> [high |-> "High PEG Ratio", low |-> "Undervalued"]
      [] c = "DuPont_Discrepancy_Z" -> [high |-> "DuPont Discrepancy", low |-> "Consistent Growth Dynamics"]]

----------------------------------------------------------------------------
(* Tables *)

SeqsUpTo(S, n) == UNION {[1..k -> S] : k \in 0..n}

Range(s) == {s[i] : i \in 1..Len(s)}

Table(cols, rows) == [exists |-> TRUE, cols |-> cols, rows |-> rows]

MissingFile == [exists |-> FALSE, cols |-> {}, rows |-> <<>>]

\* pd.DataFrame()
EmptyDataFrame == Table({}, <<>>)

\* DataFrame.empty: some axis has length 0
Empty(d) == d.cols = {} \/ Len(d.rows) = 0

\* d[mask]: the rows whose index is in keep, in order
RECURSIVE Take(_, _, _)
Take(rows, keep, i) ==
    IF i > Len(rows) THEN <<>>
    ELSE (IF i \in keep THEN <<rows[i]>> ELSE <<>>) \o Take(rows, keep, i + 1)

\* d[d[col] == value]
WhereEq(d, col, value) ==
    Table(d.cols, Take(d.rows, {i \in 1..Len(d.rows) : d.rows[i][col] = value}, 1))

\* d[[c1, c2, ...]]
Project(d, cols) ==
    Table(cols, [i \in 1..Len(d.rows) |-> [c \in cols |-> d.rows[i][c]]])

\* d[col] = values (a new or replaced column, values aligned with the rows)
WithColumn(d, col, values) ==
    Table(d.cols \cup {col},
          [i \in 1..Len(d.rows) |->
              [c \in d.cols \cup {col} |-> IF c = col THEN values[i] ELSE d.rows[i][c]]])

\* d.rename(columns = {old: new}); a column that is absent is left alone
RenameCol(d, old, new) ==
    IF old \notin d.cols THEN d
    ELSE Table((d.cols \ {old}) \cup {new},
               [i \in 1..Len(d.rows) |->
                   [c \in (d.cols \ {old}) \cup {new} |->
                       IF c = new THEN d.rows[i][old] ELSE d.rows[i][c]]])

Abs(x) == IF x < 0 THEN -x ELSE x

\* Exact fractions <<n, d>> in lowest terms with d > 0.  A quotient by zero is
\* Undefined (NaN or inf in pandas, a ZeroDivisionError in plain Python).
Undefined == <<0, 0>>

RECURSIVE Gcd(_, _)
Gcd(a, b) == IF b = 0 THEN a ELSE Gcd(b, a % b)

Frac(n, d) ==
    IF d = 0 THEN Undefined
    ELSE LET g == Gcd(Abs(n), d) IN <<n \div g, d \div g>>

FracLess(a, b) == a[1] * b[2] < b[1] * a[2]

\* sort_values(by = ..., ascending = ...) on one key column; keys are
\* fractions aligned with the rows.  Equal keys keep their original order in
\* both directions (pandas reverses, sorts and reverses again when descending).
sort_values(rows, keys, ascending) ==
    LET n == Len(rows)
        Before(j, i) ==
            \/ IF ascending THEN FracLess(keys[j], keys[i]) ELSE FracLess(keys[i], keys[j])
            \/ keys[j] = keys[i] /\ j < i
        Pos(i) == Cardinality({j \in 1..n : Before(j, i)}) + 1
    IN [p \in 1..n |-> rows[CHOOSE i \in 1..n : Pos(i) = p]]

IntKeys(rows, col) == [i \in 1..Len(rows) |-> <<rows[i][col], 1>>]

\* .head(n)
head(rows, n) == IF Len(rows) <= n THEN rows ELSE SubSeq(rows, 1, n)

----------------------------------------------------------------------------
(* load_data *)

\* pd.merge(left, right, on = 'Symbol', how = 'left'): every left row, in the
\* left order, once per right row with the same Symbol (in the right order),
\* or once with the right columns missing when there is none.
RECURSIVE MergeRows(_, _, _, _)
MergeRows(lrows, right, cols, i) ==
    IF i > Len(lrows) THEN <<>>
    ELSE LET l == lrows[i]
             m == WhereEq(right, "Symbol", l["Symbol"]).rows
             Joined(r) == [c \in cols |-> IF c \in DOMAIN l THEN l[c] ELSE r[c]]
             Unmatched == [c \in cols |-> IF c \in DOMAIN l THEN l[c] ELSE NaN]
         IN (IF Len(m) = 0 THEN <<Unmatched>>
             ELSE [k \in 1..Len(m) |-> Joined(m[k])])
            \o MergeRows(lrows, right, cols, i + 1)

\* how = 'outer' sorts the join keys: Symbol "B" first stands for any resort
merge_resorted(left, right) ==
    LET m == MergeRows(left.rows, right, left.cols \cup right.cols, 1)
    IN Table(left.cols \cup right.cols,
             Take(m, {i \in 1..Len(m) : m[i]["Symbol"] = "B"}, 1)
             \o Take(m, {i \in 1..Len(m) : m[i]["Symbol"] # "B"}, 1))

merge(left, right) ==
    Table(left.cols \cup right.cols,
          MergeRows(left.rows, right, left.cols \cup right.cols, 1))

fillna_skipped(values, other) == values

\* data['Company Name'].fillna(data['Symbol'])
fillna(values, other) ==
    [i \in 1..Len(values) |-> IF values[i] = NaN THEN other[i] ELSE values[i]]

Column(d, col) == [i \in 1..Len(d.rows) |-> d.rows[i][col]]

\* lambda x: 'Outlier' if x == -1 else 'Normal'
StatusOf_notInlier(x) == IF x # 1 THEN "Outlier" ELSE "Normal"

StatusOf(x) == IF x = -1 THEN "Outlier" ELSE "Normal"

\* FileNotFoundError from either read_csv is caught: st.error and pd.DataFrame()
load_data(u, w) ==
    IF ~u.exists \/ ~w.exists THEN EmptyDataFrame
    ELSE LET uni == Project(u, {"Symbol", "Company Name"})
             data == merge(w, uni)
             named == WithColumn(data, "Company Name",
                                 fillna(Column(data, "Company Name"), Column(data, "Symbol")))
         IN WithColumn(named, "Status",
                       [i \in 1..Len(named.rows) |-> StatusOf(named.rows[i]["Anomaly_Label"])])

LoadData ==
    /\ pc = "start"
    /\ df' = load_data(universe, watchlist)
    /\ pc' = "df"
    /\ UNCHANGED <<universe, watchlist, historical, hist_df, view>>

----------------------------------------------------------------------------
(* load_historical_data *)

\* pd.to_datetime(...).dt.year of a date <<year, month, day>>
YearOf(date) == date[1]

load_historical_data(h) ==
    IF ~h.exists THEN EmptyDataFrame
    ELSE LET dated == IF "Financial Year End" \in h.cols
                      THEN WithColumn(h, "Year",
                               [i \in 1..Len(h.rows) |-> YearOf(h.rows[i]["Financial Year End"])])
                      ELSE h
         IN RenameCol(RenameCol(RenameCol(dated, "Ticker", "Symbol"),
                                "Total Revenue", "Revenue"),
                      "Operating Cash Flow (CFO)", "OCF")

LoadHistoricalData ==
    /\ pc = "df"
    /\ hist_df' = load_historical_data(historical)
    /\ pc' = "ready"
    /\ UNCHANGED <<universe, watchlist, historical, df, view>>

----------------------------------------------------------------------------
(* Primary risk driver *)

\* Series.idxmax(): the position of the first occurrence of the maximum
RECURSIVE ArgMax_last(_, _, _)
ArgMax_last(vals, i, best) ==
    IF i > Len(vals) THEN best
    ELSE ArgMax_last(vals, i + 1, IF vals[i] >= vals[best] THEN i ELSE best)

RECURSIVE ArgMax(_, _, _)
ArgMax(vals, i, best) ==
    IF i > Len(vals) THEN best
    ELSE ArgMax(vals, i + 1, IF vals[i] > vals[best] THEN i ELSE best)

\* row[feature_cols].abs().idxmax()
abs_idxmax(row) ==
    feature_cols[ArgMax([i \in 1..Len(feature_cols) |-> Abs(row[feature_cols[i]])], 2, 1)]

get_risk_insight(row) ==
    LET max_col == abs_idxmax(row)
        max_val == row[max_col]
        direction == IF max_val > 0 THEN "high" ELSE "low"
        narrative == risk_map[max_col][direction]
    IN <<max_col, max_val, narrative>>

\* get_driver of the Sector Analysis page
get_driver(row) == feature_names[abs_idxmax(row)]

----------------------------------------------------------------------------
(* Pages *)

\* An uncaught exception ends the script run: the page shows the traceback.
Crash(page, e) == [page |-> page, err |-> e]

Outliers(d) == WhereEq(d, "Status", "Outlier")

\* ['All'] + sorted(df['Sector'].unique().tolist())
sectors(d) ==
    <<"All">> \o SelectSeq(SectorsSorted, LAMBDA s : \E i \in 1..Len(d.rows) : d.rows[i]["Sector"] = s)

pct_unguarded(outliers, total) == Frac(outliers * 100, total)

\* (outliers/total)*100 if total > 0 else 0
pct(outliers, total) == IF total > 0 THEN Frac(outliers * 100, total) ELSE <<0, 1>>

\* Whether summary_df is the object df itself; both branches of line 152 copy.
summary_is_df_unless_filtered(selected_sector) == selected_sector = "All"

summary_is_df(selected_sector) == FALSE

\* summary_df[Status == 'Outlier'].sort_values(by = 'Anomaly_Score',
\*     ascending = False).head(5)[['Company Name', 'Sector', 'Anomaly_Score']]
top5(summary_df) ==
    Project(Table(summary_df.cols,
                  head(sort_values(Outliers(summary_df).rows,
                                   IntKeys(Outliers(summary_df).rows, "Anomaly_Score"), FALSE), TopN)),
            {"Company Name", "Sector", "Anomaly_Score"})

\* The page for a chosen sector; df is the table the name df is bound to
\* when the run ends.
ExecutiveSummary(d, selected_sector) ==
    LET filtered == IF selected_sector # "All" THEN WhereEq(d, "Sector", selected_sector) ELSE d
        total == Len(filtered.rows)
        outliers == Len(Outliers(filtered).rows)
        summary_df == IF ~Empty(filtered)
                      THEN WithColumn(filtered, "Plot_Size",
                               [i \in 1..Len(filtered.rows) |-> Abs(filtered.rows[i]["Anomaly_Score"])])
                      ELSE filtered
    IN [page |-> "Executive Summary", err |-> "none",
        selected_sector |-> selected_sector,
        total |-> total, outliers |-> outliers, pct |-> pct(outliers, total),
        summary_df |-> summary_df,
        top5 |-> IF outliers > 0 THEN top5(summary_df) ELSE None,
        df |-> IF summary_is_df(selected_sector) THEN summary_df ELSE d]

ExecutiveSummaryPage ==
    /\ pc = "ready"
    /\ IF "Sector" \notin df.cols
       THEN view' = Crash("Executive Summary", "KeyError") /\ df' = df
       ELSE \E selected_sector \in Range(sectors(df)) :
               /\ view' = ExecutiveSummary(df, selected_sector)
               /\ df' = view'.df
    /\ UNCHANGED <<universe, watchlist, historical, hist_df, pc>>

\* df[df['Status'] == 'Outlier'].sort_values(by = 'Anomaly_Score', ascending = True)
TheWatchlist(d) ==
    LET o == Outliers(d)
        outliers_df == Table(o.cols, sort_values(o.rows, IntKeys(o.rows, "Anomaly_Score"), TRUE))
    IN [page |-> "The Watchlist", err |-> "none",
        outliers_df |-> outliers_df,
        shown |-> Project(outliers_df,
                          {"Company Name", "Symbol", "Sector", "Anomaly_Score"} \cup Range(feature_cols))]

TheWatchlistPage ==
    /\ pc = "ready"
    /\ view' = IF "Status" \notin df.cols THEN Crash("The Watchlist", "KeyError")
               ELSE TheWatchlist(df)
    /\ UNCHANGED <<universe, watchlist, historical, df, hist_df, pc>>

\* The primary-driver display names in sorted order (groupby sorts its keys)
DriverNamesSorted ==
    <<"Accruals (TATA)", "Asset Quality (AQI)", "DuPont Discrepancy",
      "PEG Ratio", "Price/CashFlow", "Receivables (DSRI)">>

\* Rows <<a, b>> for a in as, b in bs, in lexicographic order
RECURSIVE Pairs(_, _, _, _)
Pairs(as, bs, i, j) ==
    IF i > Len(as) THEN <<>>
    ELSE IF j > Len(bs) THEN Pairs(as, bs, i + 1, 1)
    ELSE <<(<<as[i], bs[j]>>)>> \o Pairs(as, bs, i, j + 1)

SectorAnalysis(d) ==
    LET present == SelectSeq(SectorsSorted,
                             LAMBDA s : \E i \in 1..Len(d.rows) : d.rows[i]["Sector"] = s)
        \* groupby('Sector').agg(Total = ('Symbol', 'count'), Outliers = ...)
        Stat(s) ==
            LET g == WhereEq(d, "Sector", s)
                Total == Cardinality({i \in 1..Len(g.rows) : g.rows[i]["Symbol"] # NaN})
                Outl == Len(Outliers(g).rows)
            IN [c \in {"Sector", "Total", "Outliers", "Risk %"} |->
                   CASE c = "Sector" -> s
                     [] c = "Total" -> Total
                     [] c = "Outliers" -> Outl
                     [] c = "Risk %" -> Frac(Outl * 100, Total)]
        grouped == [k \in 1..Len(present) |-> Stat(present[k])]
        sector_stats == Table({"Sector", "Total", "Outliers", "Risk %"},
                              sort_values(grouped, [k \in 1..Len(grouped) |-> grouped[k]["Risk %"]], FALSE))
        o == Outliers(d)
        outliers_only == IF ~Empty(o)
                         THEN WithColumn(o, "Primary Driver",
                                         [i \in 1..Len(o.rows) |-> get_driver(o.rows[i])])
                         ELSE o
        Count(sd) == Cardinality({i \in 1..Len(outliers_only.rows) :
                                     /\ outliers_only.rows[i]["Sector"] = sd[1]
                                     /\ outliers_only.rows[i]["Primary Driver"] = sd[2]})
        groups == SelectSeq(Pairs(SectorsSorted, DriverNamesSorted, 1, 1),
                            LAMBDA sd : Count(sd) > 0)
        \* groupby(['Sector', 'Primary Driver']).size().reset_index(name = 'Count')
        driver_stats == [k \in 1..Len(groups) |->
                            [c \in {"Sector", "Primary Driver", "Count"} |->
                                CASE c = "Sector" -> groups[k][1]
                                  [] c = "Primary Driver" -> groups[k][2]
                                  [] c = "Count" -> Count(groups[k])]]
    IN [page |-> "Sector Analysis", err |-> "none",
        sector_stats |-> sector_stats,
        outliers_only |-> outliers_only,
        driver_stats |-> IF ~Empty(o) THEN driver_stats ELSE None]

SectorAnalysisPage ==
    /\ pc = "ready"
    /\ view' = IF "Sector" \notin df.cols THEN Crash("Sector Analysis", "KeyError")
               ELSE SectorAnalysis(df)
    /\ UNCHANGED <<universe, watchlist, historical, df, hist_df, pc>>

\* The "Forensic Insight" column: the metrics shown for the primary driver.
\* The TATA branch without its "if not comp_hist.empty": .iloc[-1] of no rows
insight_unguarded(max_col, comp_hist) ==
    IF max_col = "TATA_Z" /\ Len(comp_hist.rows) = 0 THEN [err |-> "IndexError"]
    ELSE IF max_col = "TATA_Z"
    THEN [err |-> "none", box |-> "warning", metrics |-> <<"Latest Net Income", "Latest OCF">>]
    ELSE IF max_col \in {"DSRI_Z", "DuPont_Discrepancy_Z"}
    THEN [err |-> "none", box |-> "warning", metrics |-> <<>>]
    ELSE [err |-> "none", box |-> "info", metrics |-> <<>>]

insight(max_col, comp_hist) ==
    LET Needs(cols, result) ==
            IF cols \subseteq comp_hist.cols THEN result ELSE [err |-> "KeyError"]
    IN CASE max_col = "TATA_Z" ->
              IF ~Empty(comp_hist)
              THEN Needs({"Net Income", "OCF"},
                         [err |-> "none", box |-> "warning",
                          metrics |-> <<"Latest Net Income", "Latest OCF">>])
              ELSE [err |-> "none", box |-> "warning", metrics |-> <<>>]
         [] max_col = "DSRI_Z" ->
              IF ~Empty(comp_hist)
              THEN Needs({"Revenue"},
                         [err |-> "none", box |-> "warning",
                          metrics |-> <<"Revenue Growth (YoY)", "Receivables Growth (YoY)">>])
              ELSE [err |-> "none", box |-> "warning", metrics |-> <<>>]
         [] max_col = "DuPont_Discrepancy_Z" ->
              IF ~Empty(comp_hist) /\ "Total Equity" \in comp_hist.cols
              THEN Needs({"Net Income"},
                         [err |-> "none", box |-> "warning",
                          metrics |-> <<"Return on Equity (ROE)", "Equity Base">>])
              ELSE [err |-> "none", box |-> "warning", metrics |-> <<>>]
         [] OTHER -> [err |-> "none", box |-> "info", metrics |-> <<>>]

\* The "Supporting Evidence (Trend)" column
chart(max_col, comp_hist) ==
    IF ~Empty(comp_hist)
    THEN CASE max_col = "TATA_Z" -> "Earnings Quality: Profit (Blue) vs Cash (Red)"
           [] max_col = "DSRI_Z" /\ "Receivables" \in comp_hist.cols ->
                  "Revenue vs Receivables Growth"
           [] max_col = "DuPont_Discrepancy_Z" /\ "Total Equity" \in comp_hist.cols ->
                  "ROE Components: Income vs Equity Base"
           [] OTHER -> "General Financial Performance"
    ELSE "No historical data available to plot the specific anomaly trend."

\* comps: the outliers' names, then the normal companies' names
comps(d) == Column(Outliers(d), "Company Name") \o Column(WhereEq(d, "Status", "Normal"), "Company Name")

CompanyDeepDive(d, h, sel_comp) ==
    LET found == WhereEq(d, "Company Name", sel_comp)
    IN IF Len(found.rows) = 0 THEN Crash("Company Deep Dive", "IndexError")   \* .iloc[0]
       ELSE
       LET row == found.rows[1]
           symbol == row["Symbol"] \o ".NS"
           max_col == abs_idxmax(row)
           max_val == row[max_col]
           driver_name == feature_names[max_col]
           histKeyError == ~Empty(h) /\ ~({"Symbol", "Year"} \subseteq h.cols)
           comp_hist ==
               IF ~Empty(h) /\ ~histKeyError
               THEN LET m == WhereEq(h, "Symbol", symbol)
                    IN Table(m.cols, sort_values(m.rows, IntKeys(m.rows, "Year"), TRUE))
               ELSE EmptyDataFrame
           ins == insight(max_col, comp_hist)
       IN IF histKeyError THEN Crash("Company Deep Dive", "KeyError")
          ELSE IF ins.err # "none" THEN Crash("Company Deep Dive", ins.err)
          ELSE [page |-> "Company Deep Dive", err |-> "none",
                sel_comp |-> sel_comp, row |-> row, symbol |-> symbol,
                max_col |-> max_col, max_val |-> max_val, driver_name |-> driver_name,
                comp_hist |-> comp_hist, box |-> ins.box, metrics |-> ins.metrics,
                chart |-> chart(max_col, comp_hist)]

CompanyDeepDivePage ==
    /\ pc = "ready"
    /\ IF "Status" \notin df.cols
       THEN view' = Crash("Company Deep Dive", "KeyError")
       ELSE IF Len(comps(df)) = 0
       THEN view' = CompanyDeepDive(df, hist_df, None)     \* the selectbox has no option
       ELSE \E sel_comp \in Range(comps(df)) : view' = CompanyDeepDive(df, hist_df, sel_comp)
    /\ UNCHANGED <<universe, watchlist, historical, df, hist_df, pc>>

\* st.dataframe(df)
DataExplorerPage ==
    /\ pc = "ready"
    /\ view' = [page |-> "Data Explorer", err |-> "none", shown |-> df]
    /\ UNCHANGED <<universe, watchlist, historical, df, hist_df, pc>>

Next ==
    \/ LoadData
    \/ LoadHistoricalData
    \/ ExecutiveSummaryPage
    \/ TheWatchlistPage
    \/ SectorAnalysisPage
    \/ CompanyDeepDivePage
    \/ DataExplorerPage

----------------------------------------------------------------------------
(* Input files *)

UniverseCols == {"Symbol", "Company Name", "Industry"}

URow(symbol, name) ==
    [c \in UniverseCols |->
        CASE c = "Symbol" -> symbol
          [] c = "Company Name" -> name
          [] c = "Industry" -> "Services"]

WatchlistCols ==
    {"Symbol", "Sector", "Anomaly_Score", "Anomaly_Label", "PCA_1", "PCA_2"} \cup Range(feature_cols)

WRow(symbol, sector, score, label, z) ==
    [c \in WatchlistCols |->
        CASE c = "Symbol" -> symbol
          [] c = "Sector" -> sector
          [] c = "Anomaly_Score" -> score
          [] c = "Anomaly_Label" -> label
          [] c \in {"PCA_1", "PCA_2"} -> 0
          [] OTHER -> z[CHOOSE i \in 1..Len(feature_cols) : feature_cols[i] = c]]

HistColsBasic ==
    {"Ticker", "Financial Year End", "Total Revenue", "Operating Cash Flow (CFO)", "Net Income"}
HistColsFull == HistColsBasic \cup {"Receivables", "Total Equity"}
HistColsNoDate == HistColsBasic \ {"Financial Year End"}

HRow(cols, ticker, year) ==
    [c \in cols |->
        CASE c = "Ticker" -> ticker
          [] c = "Financial Year End" -> <<year, 3, 31>>
          [] OTHER -> 100]

\* One z-score vector per branch of the Deep Dive page, and a tie
ZSamples ==
    {<<2, 1, 0, 0, 0, -1>>, <<1, -2, 0, 0, 0, 0>>, <<0, 0, 1, 0, 0, 1>>, <<0, 0, 0, 0, 1, -2>>}

TypicalUniverse == Table(UniverseCols, <<URow("A", "Acme Ltd")>>)

TableOver(cols, rowSet, n) == {Table(cols, r) : r \in SeqsUpTo(rowSet, n)}

\* Join family: the universe and watchlist files vary in their keys.
InitJoin ==
    /\ universe \in {MissingFile} \cup
           TableOver(UniverseCols,
                     {URow("A", "Acme Ltd"), URow("A", "Apex Ltd"), URow("A", NaN), URow("B", "Bolt Ltd")},
                     MaxUniverse)
    /\ watchlist \in {MissingFile} \cup
           TableOver(WatchlistCols,
                     {WRow(s, "IT", -1, l, <<2, 1, 0, 0, 0, -1>>) : s \in Symbols, l \in {-1, 1}},
                     MaxRows)
    /\ historical = MissingFile
    /\ df = EmptyDataFrame /\ hist_df = EmptyDataFrame
    /\ pc = "start" /\ view = Crash("", "none")

\* Sector family: the watchlist rows vary in sector, label and score.
InitSector ==
    /\ universe = TypicalUniverse
    /\ watchlist \in TableOver(WatchlistCols,
                     {WRow("A", sec, sc, l, <<2, 1, 0, 0, 0, -1>>) :
                          sec \in Sectors, sc \in {-2, -1}, l \in Labels},
                     MaxSectorRows)
    /\ historical = MissingFile
    /\ df = EmptyDataFrame /\ hist_df = EmptyDataFrame
    /\ pc = "start" /\ view = Crash("", "none")

\* Driver family: one flagged company with every z-score vector.
InitDriver ==
    /\ universe = TypicalUniverse
    /\ watchlist \in {Table(WatchlistCols, <<WRow("A", "IT", -1, -1, z)>>) :
                          z \in [1..Len(feature_cols) -> (0 - MaxZ)..MaxZ]}
    /\ historical = MissingFile
    /\ df = EmptyDataFrame /\ hist_df = EmptyDataFrame
    /\ pc = "start" /\ view = Crash("", "none")

\* History family: the historical file varies, or is absent.
InitHist ==
    /\ universe = TypicalUniverse
    /\ watchlist \in {Table(WatchlistCols, <<WRow(s, "IT", -1, -1, z)>>) :
                          s \in Symbols, z \in ZSamples}
    /\ historical \in {MissingFile} \cup
           UNION {TableOver(cols, {HRow(cols, t, y) : t \in {"A.NS", "A"}, y \in {2023, 2024}}, MaxHist) :
                      cols \in {HistColsBasic, HistColsFull, HistColsNoDate}}
    /\ df = EmptyDataFrame /\ hist_df = EmptyDataFrame
    /\ pc = "start" /\ view = Crash("", "none")

\* Top-5 family: up to MaxTopRows flagged companies of one sector.
InitTop ==
    /\ universe = TypicalUniverse
    /\ watchlist \in TableOver(WatchlistCols,
                     {WRow("A", "IT", sc, -1, <<2, 1, 0, 0, 0, -1>>) : sc \in {-2, -1}},
                     MaxTopRows)
    /\ historical = MissingFile
    /\ df = EmptyDataFrame /\ hist_df = EmptyDataFrame
    /\ pc = "start" /\ view = Crash("", "none")

Init == InitJoin

Spec == Init /\ [][Next]_vars
SpecSector == InitSector /\ [][Next]_vars
SpecDriver == InitDriver /\ [][Next]_vars
SpecHist == InitHist /\ [][Next]_vars
SpecTop == InitTop /\ [][Next]_vars

----------------------------------------------------------------------------
(* Properties *)

Rendered(page) == pc = "ready" /\ view.page = page /\ view.err = "none"

StatusRule(d) ==
    \A i \in 1..Len(d.rows) :
        /\ d.rows[i]["Status"] \in {"Outlier", "Normal"}
        /\ d.rows[i]["Status"] = "Outlier" <=> d.rows[i]["Anomaly_Label"] = -1

\* C1: in every row of the loaded table, and of every filtered view a page
\* builds from it, Status is 'Outlier' exactly when Anomaly_Label is -1 and
\* 'Normal' otherwise.
C1_StatusMatchesLabel ==
    /\ pc # "start" /\ universe.exists /\ watchlist.exists =>
           "Status" \in df.cols /\ StatusRule(df)
    /\ Rendered("Executive Summary") => StatusRule(view.summary_df)
    /\ Rendered("The Watchlist") => StatusRule(view.outliers_df)
    /\ Rendered("Sector Analysis") => StatusRule(view.outliers_only)
    /\ Rendered("Data Explorer") /\ "Status" \in df.cols => StatusRule(view.shown)

C1_Witness ==
    /\ Rendered("Executive Summary")
    /\ view.selected_sector # "All"
    /\ \E i \in 1..Len(view.summary_df.rows) : view.summary_df.rows[i]["Anomaly_Label"] = 0
    /\ \E i \in 1..Len(df.rows) : df.rows[i]["Anomaly_Label"] = -1

\* C2: load_data returns exactly as many rows as the watchlist file has, for
\* every universe file.
C2_RowCountEqualsWatchlist ==
    pc # "start" /\ universe.exists /\ watchlist.exists =>
        Len(df.rows) = Len(watchlist.rows)

\* C3: when a required input file is missing, load_data returns the empty table
\* and every page renders on it without an exception.
C3_MissingFileStillRenders ==
    (~universe.exists \/ ~watchlist.exists) =>
        /\ pc # "start" => df = EmptyDataFrame
        /\ view.err = "none"

UniverseNames(symbol) ==
    {universe.rows[k]["Company Name"] :
        k \in {j \in 1..Len(universe.rows) : universe.rows[j]["Symbol"] = symbol}}

\* C4 as stated: Company Name is never empty; a row with no universe match has
\* its Symbol, a row with a match has the universe file's Company Name.
C4_NameIsUniverseNameOrSymbol ==
    pc # "start" /\ universe.exists /\ watchlist.exists =>
        \A i \in 1..Len(df.rows) :
            LET r == df.rows[i] IN
            /\ r["Company Name"] # NaN
            /\ UniverseNames(r["Symbol"]) = {} => r["Company Name"] = r["Symbol"]
            /\ UniverseNames(r["Symbol"]) # {} => r["Company Name"] \in UniverseNames(r["Symbol"])

\* C4 amended: Company Name is never empty; a row with no universe match has
\* its Symbol, a row with a match has a universe Company Name of that Symbol,
\* or its Symbol where the universe row has no Company Name.
C4_NameNeverEmpty ==
    pc # "start" /\ universe.exists /\ watchlist.exists =>
        \A i \in 1..Len(df.rows) :
            LET r == df.rows[i] IN
            /\ r["Company Name"] # NaN
            /\ UniverseNames(r["Symbol"]) = {} => r["Company Name"] = r["Symbol"]
            /\ UniverseNames(r["Symbol"]) # {} =>
                   r["Company Name"] \in {IF n = NaN THEN r["Symbol"] ELSE n : n \in UniverseNames(r["Symbol"])}

C4_Witness ==
    /\ pc = "ready" /\ universe.exists /\ watchlist.exists
    /\ \E i, j \in 1..Len(df.rows) :
           /\ UniverseNames(df.rows[i]["Symbol"]) = {}
           /\ df.rows[i]["Company Name"] = df.rows[i]["Symbol"]
           /\ UniverseNames(df.rows[j]["Symbol"]) = {NaN}
           /\ df.rows[j]["Company Name"] = df.rows[j]["Symbol"]

\* The first i rows of d are the first j rows of w, in order, each one or more times.
RECURSIVE InOrder(_, _, _, _)
InOrder(d, w, i, j) ==
    IF i = 0 THEN j = 0
    ELSE /\ j >= 1
         /\ \A c \in DOMAIN w[j] : d[i][c] = w[j][c]
         /\ (InOrder(d, w, i - 1, j) \/ InOrder(d, w, i - 1, j - 1))

\* C8: the rows of the loaded table follow the order of the watchlist rows
\* they come from; load_data does not resort.
C8_WatchlistOrderKept ==
    pc # "start" /\ universe.exists /\ watchlist.exists =>
        InOrder(df.rows, watchlist.rows, Len(df.rows), Len(watchlist.rows))

C8_Witness ==
    /\ pc = "ready" /\ universe.exists /\ watchlist.exists
    /\ Len(watchlist.rows) = 2
    /\ watchlist.rows[1]["Symbol"] = "A" /\ watchlist.rows[2]["Symbol"] = "B"
    /\ Len(df.rows) = 3
    /\ df.rows[3]["Symbol"] = "B"

\* The rows of the view a sector filter selects, counted on the loaded table
GroupIdx(selected) ==
    {i \in 1..Len(df.rows) : selected = "All" \/ df.rows[i]["Sector"] = selected}

OutlierIdx(selected) ==
    {i \in GroupIdx(selected) : df.rows[i]["Status"] = "Outlier"}

\* p is the exact value 100 * outliers / total, or 0 when total is 0
IsRiskPercent(p, outliers, total) ==
    /\ p # Undefined
    /\ p[2] > 0
    /\ IF total = 0 THEN p[1] = 0 ELSE p[1] * total = 100 * outliers * p[2]

\* C5: the Risk Rate of the Executive Summary and the Risk % of every sector of
\* the league table equal 100 * outliers / total of their group, and 0 (never
\* an undefined quotient or a fault) when the group is empty.
C5_RiskPercent ==
    /\ pc = "ready" /\ view.page = "Executive Summary" /\ "Sector" \in df.cols =>
           /\ view.err = "none"
           /\ view.total = Cardinality(GroupIdx(view.selected_sector))
           /\ view.outliers = Cardinality(OutlierIdx(view.selected_sector))
           /\ IsRiskPercent(view.pct, Cardinality(OutlierIdx(view.selected_sector)),
                            Cardinality(GroupIdx(view.selected_sector)))
    /\ pc = "ready" /\ view.page = "Sector Analysis" /\ "Sector" \in df.cols =>
           /\ view.err = "none"
           /\ {view.sector_stats.rows[k]["Sector"] : k \in 1..Len(view.sector_stats.rows)}
                  = {df.rows[i]["Sector"] : i \in 1..Len(df.rows)}
           /\ \A k \in 1..Len(view.sector_stats.rows) :
                  LET r == view.sector_stats.rows[k] IN
                  /\ r["Total"] = Cardinality(GroupIdx(r["Sector"]))
                  /\ r["Outliers"] = Cardinality(OutlierIdx(r["Sector"]))
                  /\ IsRiskPercent(r["Risk %"], Cardinality(OutlierIdx(r["Sector"])),
                                   Cardinality(GroupIdx(r["Sector"])))

C5_Witness ==
    /\ Rendered("Executive Summary")
    /\ Len(df.rows) = 0 /\ view.total = 0 /\ view.pct = <<0, 1>>

C5_WitnessSectors ==
    /\ Rendered("Sector Analysis")
    /\ Len(view.sector_stats.rows) = 2
    /\ view.sector_stats.rows[1]["Risk %"] = <<100, 1>>
    /\ view.sector_stats.rows[2]["Risk %"] = <<0, 1>>

FeatureIndex(c) == CHOOSE i \in 1..Len(feature_cols) : feature_cols[i] = c

\* c is the feature of largest absolute z-score, the first such in feature_cols
IsPrimaryDriver(row, c) ==
    /\ c \in Range(feature_cols)
    /\ \A j \in 1..Len(feature_cols) : Abs(row[feature_cols[j]]) <= Abs(row[c])
    /\ \A j \in 1..(FeatureIndex(c) - 1) : Abs(row[feature_cols[j]]) < Abs(row[c])

\* C6: get_risk_insight, get_driver and the Deep Dive header choose the same
\* primary driver: the feature of largest absolute z-score, ties going to the
\* first in feature_cols; its sign selects the 'high' or 'low' narrative.
C6_PrimaryDriver ==
    /\ pc = "ready" /\ "Status" \in df.cols =>
           \A i \in 1..Len(df.rows) :
               LET r == df.rows[i]
                   g == get_risk_insight(r)
               IN /\ IsPrimaryDriver(r, g[1])
                  /\ g[2] = r[g[1]]
                  /\ g[3] = IF r[g[1]] > 0 THEN risk_map[g[1]].high ELSE risk_map[g[1]].low
                  /\ get_driver(r) = feature_names[g[1]]
    /\ Rendered("Sector Analysis") =>
           \A i \in 1..Len(view.outliers_only.rows) :
               \E c \in Range(feature_cols) :
                   /\ IsPrimaryDriver(view.outliers_only.rows[i], c)
                   /\ view.outliers_only.rows[i]["Primary Driver"] = feature_names[c]
    /\ Rendered("Company Deep Dive") =>
           /\ IsPrimaryDriver(view.row, view.max_col)
           /\ view.max_val = view.row[view.max_col]
           /\ view.driver_name = feature_names[view.max_col]
           /\ view.max_col = get_risk_insight(view.row)[1]

C6_Witness ==
    /\ Rendered("Company Deep Dive")
    /\ view.row["TATA_Z"] = 0
    /\ view.row["DSRI_Z"] = -1
    /\ view.row["DuPont_Discrepancy_Z"] = 1
    /\ view.max_col = "DSRI_Z"
    /\ get_risk_insight(view.row)[3] = "Low Receivables"

\* C7: with the historical file absent, load_historical_data returns the empty
\* table and the Deep Dive of any company shows no history: no exception, an
\* empty per-company history, no historical metric, the 'No historical data'
\* message.
C7_NoHistoryIsNoData ==
    ~historical.exists /\ pc = "ready" =>
        /\ hist_df = EmptyDataFrame
        /\ view.page = "Company Deep Dive" /\ Len(df.rows) > 0 =>
               /\ view.err = "none"
               /\ Empty(view.comp_hist)
               /\ view.metrics = <<>>
               /\ view.chart = "No historical data available to plot the specific anomaly trend."

C7_Witness ==
    /\ ~historical.exists
    /\ Rendered("Company Deep Dive")
    /\ view.max_col = "TATA_Z"
    /\ view.chart = "No historical data available to plot the specific anomaly trend."

\* C9: once loaded, the company table and the historical table are never
\* changed by rendering a page.
C9_TablesReadOnly ==
    [][pc = "ready" => df' = df /\ hist_df' = hist_df]_vars

C9_Witness ==
    /\ Rendered("Executive Summary")
    /\ view.selected_sector = "All"
    /\ "Plot_Size" \in view.summary_df.cols
    /\ "Plot_Size" \notin df.cols
    /\ Len(hist_df.rows) = 2

\* C10: the Watchlist page lists exactly the outliers in non-decreasing
\* Anomaly_Score order, and the Top 5 table shows at most 5 rows, all outliers
\* of the filtered view, those with the most negative Anomaly_Score.
C10_MostAnomalousFirst ==
    /\ Rendered("The Watchlist") =>
           /\ Len(view.outliers_df.rows) = Cardinality(OutlierIdx("All"))
           /\ \A k \in 1..Len(view.outliers_df.rows) :
                  \E i \in OutlierIdx("All") : view.outliers_df.rows[k] = df.rows[i]
           /\ \A k \in 1..(Len(view.outliers_df.rows) - 1) :
                  view.outliers_df.rows[k]["Anomaly_Score"]
                      <= view.outliers_df.rows[k + 1]["Anomaly_Score"]
    /\ Rendered("Executive Summary") /\ view.outliers > 0 =>
           LET shown == view.top5.rows
               o == OutlierIdx(view.selected_sector)
           IN /\ Len(shown) <= TopN
              /\ Len(shown) = IF Cardinality(o) < TopN THEN Cardinality(o) ELSE TopN
              /\ \A k \in 1..Len(shown) :
                     \E i \in o : \A c \in DOMAIN shown[k] : shown[k][c] = df.rows[i][c]
              \* a shown row has fewer than 5 outliers more negative than it
              /\ \A k \in 1..Len(shown) :
                     Cardinality({i \in o : df.rows[i]["Anomaly_Score"] < shown[k]["Anomaly_Score"]})
                         < TopN

====
